---- MODULE Spec2Model ----
(***************************************************************************)
(* A model of src/app.js, the Pascal's triangle (杨辉三角) visualizer.      *)
(*                                                                         *)
(* Numbers.  The script computes with IEEE doubles.  Every value the model *)
(* computes is an integer below 2^53, where double arithmetic on integers  *)
(* is exact, so numbers are modelled as integers; the one operation that   *)
(* can leave the integers, the division of combination, yields NonInteger  *)
(* when the quotient is not exact.  The products of combination, which can *)
(* pass 2^31, are kept in two limbs.                                       *)
(*                                                                         *)
(* Indices.  JavaScript arrays start at 0, sequences at 1: the entry       *)
(* triangle[n][k] of the script is triangle[n+1][k+1] here.                *)
(*                                                                         *)
(* Text.  A string is a sequence of one-character strings, so that         *)
(* parseInt and the number-to-string conversion are computed, not assumed. *)
(***************************************************************************)
EXTENDS Integers, Sequences, FiniteSets, TLC

VARIABLES
  state,              \* the global state object (src/app.js 13-25)
  rowsInput,          \* el.rowsInput.value, the text of the row-count field
  triangleContainer,  \* the .pascal-line children of el.triangleContainer
  svg,                \* the children of el.svg, the overlay
  patternCells,       \* the cells of the document handed to animatePatternCells
  frames,             \* the pending requestAnimationFrame callbacks, oldest first
  expansionContent,   \* what el.expansionContent shows
  call,               \* a direct call of a function: name, arguments, result
  classList,          \* the classes the handlers put on el.triangleContainer
  lastClicked,        \* el.lastClicked: <<>> while undefined, or <<n, k, value>>
  timeout,            \* the variable `timeout` of each debounce closure
  timers,             \* the timers setTimeout has started and not yet fired
  history             \* the calls of the debounced functions and of their fn

(***************************************************************************)
(* Program constants and bounds                                            *)
(***************************************************************************)
maxRows == 30
minRows == 1
initialRows == 6

\* isPrime is exercised on 0..MaxPrimeArg
MaxPrimeArg == 1000

\* the numbers typed into the row-count field lie within TypedMargin of
\* minRows or of maxRows
TypedMargin == 2

\* the cells clicked lie in rows 0..MaxClickRow of the triangle
MaxClickRow == 1

\* a handler that renders is taken while at most MaxPending animation-frame
\* callbacks are pending after it
MaxPending == 2

\* the history of the debounced listeners records up to MaxHistory calls
MaxHistory == 4

\* the result of a division whose quotient is not an integer
NonInteger == 0 - 1

(***************************************************************************)
(* isPrime (src/app.js 338-350)                                            *)
(***************************************************************************)
\* isPrimeLoop with the test of i + 2 forgotten
RECURSIVE isPrimeLoopOnlyI(_, _)
isPrimeLoopOnlyI(num, i) ==
  IF i * i <= num
    THEN IF num % i = 0 THEN FALSE ELSE isPrimeLoopOnlyI(num, i + 6)
    ELSE TRUE

\* the for loop of isPrime: i <= Math.sqrt(num) is i*i <= num on integers
RECURSIVE isPrimeLoop(_, _)
isPrimeLoop(num, i) ==
  IF i * i <= num
    THEN IF num % i = 0 \/ num % (i + 2) = 0
           THEN FALSE
           ELSE isPrimeLoop(num, i + 6)
    ELSE TRUE

isPrime(num) ==
  IF num <= 1 THEN FALSE
  ELSE IF num <= 3 THEN TRUE
  ELSE IF num % 2 = 0 \/ num % 3 = 0 THEN FALSE
  ELSE isPrimeLoop(num, 5)

(***************************************************************************)
(* for (i = lo; i <= hi; i++) acc = body(i, acc)                           *)
(*                                                                         *)
(* The iterations run in increasing order of i, each on the result of the  *)
(* one before.  The range is run as its lower half and then its upper half *)
(* so that the evaluation nests to a depth logarithmic in the number of    *)
(* iterations; firstHalf is a bound variable, so the lower half is a value *)
(* before the upper half starts.                                           *)
(***************************************************************************)
RECURSIVE forLoop(_, _, _, _)
forLoop(body(_, _), lo, hi, acc) ==
  IF lo > hi THEN acc
  ELSE IF lo = hi THEN body(lo, acc)
  ELSE CHOOSE result \in
         {forLoop(body, ((lo + hi) \div 2) + 1, hi, firstHalf) :
            firstHalf \in {forLoop(body, lo, (lo + hi) \div 2, acc)}} : TRUE

(***************************************************************************)
(* combination (src/app.js 358-368)                                        *)
(***************************************************************************)
\* A product result * factor can pass 2^31, so it is kept in two limbs:
\* the number hi * Limb + lo with 0 <= lo < Limb.
Limb == 2^24

times(result, factor) ==
  [hi |-> (result \div Limb) * factor + ((result % Limb) * factor) \div Limb,
   lo |-> ((result % Limb) * factor) % Limb]

\* the remainder and the quotient of a two-limb number by a small divisor
remainder(wide, divisor) ==
  ((wide.hi % divisor) * (Limb % divisor) + wide.lo) % divisor

quotient(wide, divisor) ==
  (wide.hi \div divisor) * Limb
    + ((wide.hi % divisor) * Limb + wide.lo) \div divisor

\* result * factor / divisor: NonInteger when the division is not exact
scaled(result, factor, divisor) ==
  IF result = NonInteger THEN NonInteger
  ELSE IF remainder(times(result, factor), divisor) = 0
    THEN quotient(times(result, factor), divisor)
    ELSE NonInteger

\* combinationStep with the factor n - i in place of n - i + 1
combinationStepOffByOne(result, n, i) == scaled(result, n - i, i)

\* one iteration of the loop: result = result * (n - i + 1) / i
combinationStep(result, n, i) == scaled(result, n - i + 1, i)

\* the iterations of the loop of combination(n, k), in order: the counter,
\* the product result * (n - i + 1) and the new value of result
combinationTrace(n, k) ==
  forLoop(LAMBDA i, trace :
            Append(trace,
                   [i |-> i,
                    product |->
                      times(IF i = 1 THEN 1 ELSE trace[i - 1].result,
                            n - i + 1),
                    result |->
                      combinationStep(IF i = 1 THEN 1 ELSE trace[i - 1].result,
                                      n, i)]),
          1, k, <<>>)

\* let result = 1; for (let i = 1; i <= k; i++) ...
combinationLoop(n, k) ==
  forLoop(LAMBDA i, result : combinationStep(result, n, i), 1, k, 1)

combination(n, k) ==
  IF k = 0 \/ k = n THEN 1 ELSE combinationLoop(n, k)

(***************************************************************************)
(* generatePascalTriangle (src/app.js 375-387)                             *)
(***************************************************************************)
\* generateRow with the loop condition k < n in place of k <= n
generateRowShort(n) ==
  forLoop(LAMBDA k, row : Append(row, combination(n, k)), 0, n - 1, <<>>)

\* triangle[n] = []; for (k = 0; k <= n; k++) triangle[n][k] = combination(n,k)
generateRow(n) ==
  forLoop(LAMBDA k, row : Append(row, combination(n, k)), 0, n, <<>>)

\* for (n = 0; n < rows; n++)
generatePascalTriangle(rows) ==
  forLoop(LAMBDA n, triangle : Append(triangle, generateRow(n)),
          0, rows - 1, <<>>)

(***************************************************************************)
(* Text: the conversions the script leaves to the language                 *)
(***************************************************************************)
Digits == <<"0", "1", "2", "3", "4", "5", "6", "7", "8", "9">>

IsDigit(c) == \E d \in 1..10 : Digits[d] = c

DigitValue(c) == (CHOOSE d \in 1..10 : Digits[d] = c) - 1

\* the text of a quotient that is not an integer (it has a fractional part)
NonIntegerText == <<"#", ".", "#">>

\* String(v), as in `${value}` and in the assignments to dataset.value and
\* to the value of the input field
RECURSIVE numberToString(_)
numberToString(v) ==
  IF v = NonInteger THEN NonIntegerText
  ELSE IF v < 0 THEN <<"-">> \o numberToString(0 - v)
  ELSE IF v < 10 THEN <<Digits[v + 1]>>
  ELSE Append(numberToString(v \div 10), Digits[(v % 10) + 1])

\* the results of parseInt: NaN, or an integer
NaN == [nan |-> TRUE, val |-> 0]
Num(v) == [nan |-> FALSE, val |-> v]

RECURSIVE skipSpaces(_, _)
skipSpaces(text, i) ==
  IF i <= Len(text) /\ text[i] = " " THEN skipSpaces(text, i + 1) ELSE i

RECURSIVE parseDigits(_, _, _)
parseDigits(text, i, acc) ==
  IF i <= Len(text) /\ IsDigit(text[i])
    THEN parseDigits(text, i + 1, acc * 10 + DigitValue(text[i]))
    ELSE acc

\* parseInt(text, 10): leading blanks, an optional sign, then the longest run
\* of decimal digits; NaN when there is no digit there
parseInt(text) ==
  LET i0 == skipSpaces(text, 1)
      signed == i0 <= Len(text) /\ text[i0] \in {"-", "+"}
      i1 == IF signed THEN i0 + 1 ELSE i0
  IN  IF i1 <= Len(text) /\ IsDigit(text[i1])
        THEN IF signed /\ text[i0] = "-"
               THEN Num(0 - parseDigits(text, i1, 0))
               ELSE Num(parseDigits(text, i1, 0))
        ELSE NaN

\* sum + parseInt(...): NaN is absorbing
addNumber(sum, parsed) ==
  IF sum.nan \/ parsed.nan THEN NaN ELSE Num(sum.val + parsed.val)

\* sum.toString() and `${rowSum}`
sumToString(sum) ==
  IF sum.nan THEN <<"N", "a", "N">> ELSE numberToString(sum.val)

(***************************************************************************)
(* showBinomialExpansion (src/app.js 394-424): the LaTeX source of the     *)
(* expansion of (a+b)^row; it reads state.useNumericCoeff                  *)
(***************************************************************************)
\* a${aExp > 1 ? `^{${aExp}}` : ''} when aExp > 0, and the same for b
power(letter, exponent) ==
  IF exponent > 0
    THEN <<letter>> \o (IF exponent > 1
                          THEN <<"^", "{">> \o numberToString(exponent) \o <<"}">>
                          ELSE <<>>)
    ELSE <<>>

\* the coefficient of term k: the number, left out when it is 1, or the
\* symbol C_{row}^{k}
coefficientText(row, k, useNumericCoeff) ==
  IF useNumericCoeff
    THEN IF combination(row, k) # 1
           THEN numberToString(combination(row, k))
           ELSE <<>>
    ELSE <<"C", "_", "{">> \o numberToString(row) \o <<"}", "^", "{">>
           \o numberToString(k) \o <<"}">>

\* expansionTerm with the exponents of a and b exchanged
expansionTermSwapped(row, k, useNumericCoeff) ==
  (IF k > 0 THEN <<" ", "+", " ">> ELSE <<>>)
  \o coefficientText(row, k, useNumericCoeff)
  \o power("a", k)
  \o power("b", row - k)

\* one iteration of the loop: what it appends to expansion
expansionTerm(row, k, useNumericCoeff) ==
  (IF k > 0 THEN <<" ", "+", " ">> ELSE <<>>)
  \o coefficientText(row, k, useNumericCoeff)
  \o power("a", row - k)
  \o power("b", k)

\* let expansion = `(a+b)^{${row}} = `
expansionHead(row) ==
  <<"(", "a", "+", "b", ")", "^", "{">> \o numberToString(row)
    \o <<"}", " ", "=", " ">>

showBinomialExpansion(row, useNumericCoeff) ==
  forLoop(LAMBDA k, expansion :
            expansion \o expansionTerm(row, k, useNumericCoeff),
          0, row, expansionHead(row))

(***************************************************************************)
(* The document: the cells of #triangle-container and the elements of the  *)
(* SVG overlay.  Coordinates, colours and the styling classes of single    *)
(* cells are not modelled; an SVG element records which annotation it is   *)
(* and the cells or the row it belongs to.                                 *)
(***************************************************************************)
\* one .pascal-number cell with its dataset (render, src/app.js 456-460)
Cell(n, k, value) == [n |-> n, k |-> k, value |-> numberToString(value)]

\* row.forEach((value, k) => ...): the cells of one .pascal-line
renderLine(row, n) ==
  forLoop(LAMBDA k, cells : Append(cells, Cell(n, k, row[k + 1])),
          0, Len(row) - 1, <<>>)

\* triangle.forEach((row, n) => ...): the .pascal-line elements render appends
renderLines(triangle) ==
  forLoop(LAMBDA n, lines : Append(lines, renderLine(triangle[n + 1], n)),
          0, Len(triangle) - 1, <<>>)

\* querySelector(`.pascal-number[data-n='n'][data-k='k']`): the cell or null,
\* here a sequence of one cell or none
querySelector(container, n, k) ==
  IF /\ n + 1 \in DOMAIN container
     /\ k + 1 \in DOMAIN container[n + 1]
     /\ container[n + 1][k + 1].n = n
     /\ container[n + 1][k + 1].k = k
    THEN <<container[n + 1][k + 1]>>
    ELSE <<>>

\* an element of the overlay
Svg(kind, at, text) == [kind |-> kind, at |-> at, text |-> text]

\* displaySumLabel and displayRowSumLabel: a rounded rect, then the text
displaySumLabel(at, sum) ==
  << Svg("label-rect", at, <<>>), Svg("label-text", at, sumToString(sum)) >>

displayRowSumLabel(at, label) ==
  << Svg("row-label-rect", at, <<>>), Svg("row-label-text", at, label) >>

(***************************************************************************)
(* drawRowSums (src/app.js 636-698) and drawConnections (750-792)          *)
(***************************************************************************)
\* rowSum with the first cell of the row left out
rowSumFromSecond(cells) ==
  forLoop(LAMBDA j, sum : addNumber(sum, parseInt(cells[j].value)),
          2, Len(cells), Num(0))

\* cells.reduce((sum, cell) => sum + parseInt(cell.dataset.value), 0)
rowSum(cells) ==
  forLoop(LAMBDA j, sum : addNumber(sum, parseInt(cells[j].value)),
          1, Len(cells), Num(0))

\* const sumLabel = `2^${n} = ${rowSum}`
sumLabel(n, sum) ==
  <<"2", "^">> \o numberToString(n) \o <<" ", "=", " ">> \o sumToString(sum)

\* what drawRowSums draws for line n: the line through the row, the dashed
\* line to the label, the label
drawRowSum(cells, n) ==
  <<Svg("row-line", <<n>>, <<>>), Svg("row-connect", <<n>>, <<>>)>>
  \o displayRowSumLabel(<<n>>, sumLabel(n, rowSum(cells)))

\* lines.forEach((line, n) => { if (cells.length > 0) ... }): the overlay
\* is added to, never emptied
drawRowSums(container, overlay) ==
  forLoop(LAMBDA n, drawn :
            IF Len(container[n + 1]) > 0
              THEN drawn \o drawRowSum(container[n + 1], n)
              ELSE drawn,
          0, Len(container) - 1, overlay)

\* curNums.forEach((cell, j) => ...): a line from cell (i, j) to each of the
\* cells (i+1, j) and (i+1, j+1) that exist
connectionsOfLine(container, i) ==
  forLoop(LAMBDA j, drawn :
            drawn
            \o (IF j < Len(container[i + 2])
                  THEN <<Svg("connection", <<i, j, j>>, <<>>)>> ELSE <<>>)
            \o (IF j + 1 < Len(container[i + 2])
                  THEN <<Svg("connection", <<i, j, j + 1>>, <<>>)>> ELSE <<>>),
          0, Len(container[i + 1]) - 1, <<>>)

\* drawConnections: clearSVG(), then for (i = 0; i < lines.length - 1; i++)
drawConnections(container) ==
  forLoop(LAMBDA i, drawn : drawn \o connectionsOfLine(container, i),
          0, Len(container) - 2, <<>>)

(***************************************************************************)
(* The pattern extraction (src/app.js 897-1087)                            *)
(***************************************************************************)
\* getNaturalNumberCells reading column 0 in place of column 1
getNaturalNumberCellsColumn0(rows, container) ==
  forLoop(LAMBDA n, cells :
            IF n >= 1 THEN cells \o querySelector(container, n, 0) ELSE cells,
          0, rows - 1, <<>>)

\* for (n = 0; n < rows; n++) if (n >= 1) { cell at column 1; push if found }
getNaturalNumberCells(rows, container) ==
  forLoop(LAMBDA n, cells :
            IF n >= 1 THEN cells \o querySelector(container, n, 1) ELSE cells,
          0, rows - 1, <<>>)

\* getTriangularNumberCells starting at row 3 in place of row 2
getTriangularFromRow3(rows, container) ==
  forLoop(LAMBDA n, cells : cells \o querySelector(container, n, 2),
          3, rows - 1, <<>>)

\* for (n = 2; n < rows; n++) { cell at column 2; push if found }
getTriangularNumberCells(rows, container) ==
  forLoop(LAMBDA n, cells : cells \o querySelector(container, n, 2),
          2, rows - 1, <<>>)

\* getTetrahedralNumberCells reading column 2 in place of column 3
getTetrahedralColumn2(rows, container) ==
  forLoop(LAMBDA n, cells : cells \o querySelector(container, n, 2),
          3, rows - 1, <<>>)

\* for (n = 3; n < rows; n++) { cell at column 3; push if found }
getTetrahedralNumberCells(rows, container) ==
  forLoop(LAMBDA n, cells : cells \o querySelector(container, n, 3),
          3, rows - 1, <<>>)

\* one iteration of the inner loop of getFibonacciCells: the cell (m - i, i),
\* when it exists, joins the diagonal and adds to its sum
diagonalStep(container, m, i, acc) ==
  LET cell == querySelector(container, m - i, i)
  IN  IF cell # <<>>
        THEN [cells |-> acc.cells \o cell,
              sum |-> addNumber(acc.sum, parseInt(cell[1].value))]
        ELSE acc

\* diagonal walking along row m, cell (m, i), in place of the diagonal
diagonalAlongRow(container, m) ==
  forLoop(LAMBDA i, acc : diagonalStep(container, m + i, i, acc),
          0, m, [cells |-> <<>>, sum |-> Num(0)])

\* const diagonalCells = []; let sum = 0; for (i = 0; i <= m; i++) ...
diagonal(container, m) ==
  forLoop(LAMBDA i, acc : diagonalStep(container, m, i, acc),
          0, m, [cells |-> <<>>, sum |-> Num(0)])

\* diagonalCells.forEach(cell => ...): a dot on each cell of the diagonal
diagonalDots(cells) ==
  forLoop(LAMBDA j, dots :
            Append(dots, Svg("fib-circle", <<cells[j].n, cells[j].k>>, <<>>)),
          1, Len(cells), <<>>)

\* what getFibonacciCells draws for one diagonal that has cells: the line
\* through it and the dots (two cells or more), the dashed extension, whose
\* direction depends on countNum, and the label of the sum
drawDiagonal(m, d, countNum) ==
  (IF Len(d.cells) > 1
     THEN <<Svg("fib-line", <<m>>, <<>>)>> \o diagonalDots(d.cells)
     ELSE <<>>)
  \o <<Svg("fib-extend", <<m, countNum>>, <<>>)>>
  \o displaySumLabel(<<m>>, d.sum)

\* one iteration of the outer loop of getFibonacciCells
fibonacciStep(container, m, acc) ==
  LET d == diagonal(container, m)
  IN  IF Len(d.cells) > 0
        THEN [cells |-> acc.cells \o d.cells,
              svg |-> acc.svg \o drawDiagonal(m, d, acc.countNum),
              countNum |-> acc.countNum + 1]
        ELSE acc

\* getFibonacciCells: let countNum = 1; for (m = 0; m < state.rows; m++) ...;
\* the cells it returns and the overlay it leaves
getFibonacciCells(rows, container, overlay) ==
  forLoop(LAMBDA m, acc : fibonacciStep(container, m, acc),
          0, rows - 1, [cells |-> <<>>, svg |-> overlay, countNum |-> 1])

(***************************************************************************)
(* render (src/app.js 430-516) and what it calls                           *)
(***************************************************************************)
\* drawVerticalSymmetryLine: when the top cell exists, a dot on the cell
\* nearest the axis in every second row that has cells (for n = 0; n <
\* state.rows; n += 2), then the dashed axis itself
drawVerticalSymmetryLine(rows, container) ==
  IF querySelector(container, 0, 0) # <<>>
    THEN forLoop(LAMBDA j, drawn :
                   IF 2 * j + 1 \in DOMAIN container
                        /\ Len(container[2 * j + 1]) > 0
                     THEN Append(drawn, Svg("symmetry-circle", <<2 * j>>, <<>>))
                     ELSE drawn,
                 0, (rows - 1) \div 2, <<>>)
         \o <<Svg("symmetry-line", <<>>, <<>>)>>
    ELSE <<>>

\* highlightPatternCells: the switch over the pattern; the cells it hands to
\* animatePatternCells and the overlay it leaves
highlightPatternCells(pattern, rows, container, overlay) ==
  CASE pattern = "fibonacci" ->
         LET r == getFibonacciCells(rows, container, overlay)
         IN  [cells |-> r.cells, svg |-> r.svg]
    [] pattern = "natural" ->
         [cells |-> getNaturalNumberCells(rows, container), svg |-> overlay]
    [] pattern = "triangular" ->
         [cells |-> getTriangularNumberCells(rows, container), svg |-> overlay]
    [] pattern = "tetrahedral" ->
         [cells |-> getTetrahedralNumberCells(rows, container), svg |-> overlay]
    [] OTHER -> [cells |-> <<>>, svg |-> overlay]

\* a callback passed to requestAnimationFrame(() => requestAnimationFrame(fn)):
\* fn runs in the second frame after the request
Scheduled(fn) == [fn |-> fn, framesLeft |-> 2]

\* the document render leaves for a state object: the container is emptied
\* and rebuilt from generatePascalTriangle(state.rows), the overlay is
\* emptied (clearSVG), then the symmetry line and the pattern are drawn
renderDocument(rows, showSymmetryLine, currentPattern) ==
  LET container == renderLines(generatePascalTriangle(rows))
      symmetry == IF showSymmetryLine
                    THEN drawVerticalSymmetryLine(rows, container)
                    ELSE <<>>
      pattern == IF currentPattern # "null"
                   THEN highlightPatternCells(currentPattern, rows, container,
                                              symmetry)
                   ELSE [cells |-> <<>>, svg |-> symmetry]
  IN  [container |-> container, svg |-> pattern.svg, cells |-> pattern.cells]

\* the state objects the handlers can leave, as far as render reads them
renderedStates ==
  {<<rows, showSymmetryLine, currentPattern>> \in
     (minRows..maxRows) \X BOOLEAN \X
     {"null", "fibonacci", "natural", "triangular", "tetrahedral"} :
     showSymmetryLine => currentPattern = "null"}

\* renderDocument tabulated over them, so that each document is computed
\* once (@@ yields the table as an explicit value)
renderedDocuments ==
  [key \in renderedStates |-> renderDocument(key[1], key[2], key[3])] @@ <<>>

documentOf(rows, showSymmetryLine, currentPattern) ==
  IF <<rows, showSymmetryLine, currentPattern>> \in renderedStates
    THEN renderedDocuments[<<rows, showSymmetryLine, currentPattern>>]
    ELSE renderDocument(rows, showSymmetryLine, currentPattern)

\* render(), called with the state object st already updated
render(st) ==
  \E doc \in {documentOf(st.rows, st.showSymmetryLine, st.currentPattern)} :
    /\ triangleContainer' = doc.container
    /\ svg' = doc.svg
    /\ patternCells' = doc.cells
    /\ frames' = frames
         \o (IF st.showLines THEN <<Scheduled("drawConnections")>> ELSE <<>>)
         \o (IF st.showRowSums THEN <<Scheduled("drawRowSums")>> ELSE <<>>)

(***************************************************************************)
(* The state object and the click handlers (src/app.js 13-25, 74-331)      *)
(***************************************************************************)
\* what an element shows: a text of the page, or a formula KaTeX has rendered
Text(name) == [katex |-> FALSE, content |-> <<name>>]

Katex(latex) == [katex |-> TRUE, content |-> latex]

\* the two debounced listeners (src/app.js 323-330), and null
Listeners == {"resize", "scroll"}

null == 0

\* what the handlers of the row count, the patterns and reset never touch
elsewhere == <<classList, lastClicked, timeout, timers>>

initialState ==
  [rows |-> initialRows, showLines |-> FALSE, useCombination |-> FALSE,
   useNumericCoeff |-> FALSE, showSymmetryLine |-> FALSE,
   currentPattern |-> "null", showSierpinski |-> FALSE,
   showRowSums |-> FALSE, showPrimes |-> FALSE]

\* activateFeature(featureType): every special feature off, then the one
\* asked for on (null: none), then render
\* activateFeature without the five assignments that switch every feature off
activateFeatureKeeping(featureType) ==
  LET st == CASE featureType = "symmetry" -> [state EXCEPT !.showSymmetryLine = TRUE]
              [] featureType = "sierpinski" -> [state EXCEPT !.showSierpinski = TRUE]
              [] featureType = "rowSums" -> [state EXCEPT !.showRowSums = TRUE]
              [] featureType = "primes" -> [state EXCEPT !.showPrimes = TRUE]
              [] featureType = "null" -> state
              [] OTHER -> [state EXCEPT !.currentPattern = featureType]
  IN  /\ state' = st
      /\ render([st EXCEPT !.showSymmetryLine =
                             st.showSymmetryLine /\ st.currentPattern = "null"])

activateFeature(featureType) ==
  LET off == [state EXCEPT !.currentPattern = "null",
                           !.showSymmetryLine = FALSE,
                           !.showSierpinski = FALSE,
                           !.showRowSums = FALSE,
                           !.showPrimes = FALSE]
      st == CASE featureType = "symmetry" -> [off EXCEPT !.showSymmetryLine = TRUE]
              [] featureType = "sierpinski" -> [off EXCEPT !.showSierpinski = TRUE]
              [] featureType = "rowSums" -> [off EXCEPT !.showRowSums = TRUE]
              [] featureType = "primes" -> [off EXCEPT !.showPrimes = TRUE]
              [] featureType = "null" -> off
              [] OTHER -> [off EXCEPT !.currentPattern = featureType]
  IN  /\ state' = st
      /\ render(st)

\* el.toggleSymmetryBtn.onclick
ClickSymmetry ==
  /\ activateFeature(IF state.showSymmetryLine THEN "null" ELSE "symmetry")
  /\ UNCHANGED <<rowsInput, expansionContent, call, elsewhere>>

\* el.fibonacciBtn.onclick, el.naturalBtn.onclick, el.triangularBtn.onclick,
\* el.tetrahedralBtn.onclick
ClickPattern(pattern) ==
  /\ activateFeature(IF state.currentPattern = pattern THEN "null" ELSE pattern)
  /\ UNCHANGED <<rowsInput, expansionContent, call, elsewhere>>

ClickFibonacci == ClickPattern("fibonacci")

ClickNatural == ClickPattern("natural")

ClickTriangular == ClickPattern("triangular")

ClickTetrahedral == ClickPattern("tetrahedral")

\* el.clearPatternBtn.onclick
ClickClearPattern ==
  /\ activateFeature("null")
  /\ UNCHANGED <<rowsInput, expansionContent, call, elsewhere>>

\* what the user may have typed into the row-count field
TypedTexts ==
  {numberToString(v) :
     v \in ((minRows - TypedMargin)..(minRows + TypedMargin))
             \cup ((maxRows - TypedMargin)..(maxRows + TypedMargin))}
  \cup {<<>>, <<"a", "b", "c">>, <<"1", "2", "p", "x">>, <<"4", ".", "9">>,
        <<" ", "7">>}

\* applyRows with the test rows >= state.minRows forgotten
applyRowsNoLowerBound(text) ==
  LET v == parseInt(text)
  IN  /\ rowsInput' = text
      /\ IF ~v.nan /\ v.val <= maxRows
           THEN /\ state' = [state EXCEPT !.rows = v.val]
                /\ render(state')
           ELSE UNCHANGED <<state, triangleContainer, svg, patternCells, frames>>
      /\ UNCHANGED <<expansionContent, call, elsewhere>>

\* the apply-rows handler, on the text the field holds at the click
applyRows(text) ==
  LET v == parseInt(text)
  IN  /\ rowsInput' = text
      /\ IF ~v.nan /\ v.val >= minRows /\ v.val <= maxRows
           THEN /\ state' = [state EXCEPT !.rows = v.val]
                /\ render(state')
           ELSE UNCHANGED <<state, triangleContainer, svg, patternCells, frames>>
      /\ UNCHANGED <<expansionContent, call, elsewhere>>

\* the field is left as it is, or edited, and apply-rows is clicked
ClickApplyRows == \E text \in TypedTexts \cup {rowsInput} : applyRows(text)

\* the add-row handler
ClickAddRow ==
  /\ IF state.rows < maxRows
       THEN /\ state' = [state EXCEPT !.rows = state.rows + 1]
            /\ rowsInput' = numberToString(state'.rows)
            /\ render(state')
       ELSE UNCHANGED <<state, rowsInput, triangleContainer, svg, patternCells,
                        frames>>
  /\ UNCHANGED <<expansionContent, call, elsewhere>>

\* the remove-row handler
ClickRemoveRow ==
  /\ IF state.rows > minRows
       THEN /\ state' = [state EXCEPT !.rows = state.rows - 1]
            /\ rowsInput' = numberToString(state'.rows)
            /\ render(state')
       ELSE UNCHANGED <<state, rowsInput, triangleContainer, svg, patternCells,
                        frames>>
  /\ UNCHANGED <<expansionContent, call, elsewhere>>

\* the reset-btn handler: showSymmetryLine is not among the fields it resets
ClickReset ==
  /\ state' = [state EXCEPT !.rows = initialRows,
                            !.showLines = FALSE,
                            !.useCombination = FALSE,
                            !.useNumericCoeff = FALSE,
                            !.currentPattern = "null",
                            !.showSierpinski = FALSE,
                            !.showRowSums = FALSE,
                            !.showPrimes = FALSE]
  /\ rowsInput' = numberToString(state'.rows)
  /\ expansionContent' = Text("placeholder")
  /\ render(state')
  /\ UNCHANGED <<call, elsewhere>>

\* el.toggleSierpinskiBtn.onclick: the class is added or removed on the
\* value state.showSierpinski has at the click, then the feature is switched
ClickSierpinski ==
  /\ classList' = IF ~state.showSierpinski
                    THEN classList \cup {"sierpinski-active"}
                    ELSE classList \ {"sierpinski-active"}
  /\ activateFeature(IF state.showSierpinski THEN "null" ELSE "sierpinski")
  /\ UNCHANGED <<rowsInput, expansionContent, call, lastClicked, timeout,
                 timers>>

\* el.toggleRowSumsBtn.onclick
ClickRowSums ==
  /\ activateFeature(IF state.showRowSums THEN "null" ELSE "rowSums")
  /\ UNCHANGED <<rowsInput, expansionContent, call, elsewhere>>

\* el.togglePrimesBtn.onclick
ClickPrimes ==
  /\ activateFeature(IF state.showPrimes THEN "null" ELSE "primes")
  /\ UNCHANGED <<rowsInput, expansionContent, call, elsewhere>>

\* el.toggleLinesBtn.onclick
ClickToggleLines ==
  /\ state' = [state EXCEPT !.showLines = ~state.showLines]
  /\ render(state')
  /\ UNCHANGED <<rowsInput, expansionContent, call, elsewhere>>

\* el.toggleNotationBtn.onclick
ClickToggleNotation ==
  /\ state' = [state EXCEPT !.useCombination = ~state.useCombination]
  /\ render(state')
  /\ UNCHANGED <<rowsInput, expansionContent, call, elsewhere>>

\* onCellClick(n, k, value), reading the state object st
onCellClick(clicked, st) ==
  /\ lastClicked' = clicked
  /\ expansionContent' =
       Katex(showBinomialExpansion(clicked[1], st.useNumericCoeff))

\* el.toggleCoeffBtn.onclick: no render; the last click is replayed
ClickToggleCoeff ==
  /\ state' = [state EXCEPT !.useNumericCoeff = ~state.useNumericCoeff]
  /\ IF lastClicked # <<>>
       THEN onCellClick(lastClicked, state')
       ELSE UNCHANGED <<lastClicked, expansionContent>>
  /\ UNCHANGED <<rowsInput, triangleContainer, svg, patternCells, frames,
                 call, classList, timeout, timers>>

\* cell.onclick of a cell of the rendered triangle, in rows 0..MaxClickRow:
\* the handler holds the n, k and value render built the cell from
ClickCell ==
  \E line \in 1..Len(triangleContainer) :
    \E j \in 1..Len(triangleContainer[line]) :
      /\ triangleContainer[line][j].n <= MaxClickRow
      /\ onCellClick(<<triangleContainer[line][j].n,
                       triangleContainer[line][j].k,
                       combination(triangleContainer[line][j].n,
                                   triangleContainer[line][j].k)>>, state)
      /\ UNCHANGED <<state, rowsInput, triangleContainer, svg, patternCells,
                     frames, call, classList, timeout, timers>>

(***************************************************************************)
(* Animation frames (src/app.js 494-502).  A frame runs the callbacks      *)
(* requested before it, oldest first; the outer callback of                *)
(* requestAnimationFrame(() => requestAnimationFrame(fn)) requests fn for  *)
(* the frame after.                                                        *)
(***************************************************************************)
\* fn(), for the two functions render schedules
runCallback(fn, container, overlay) ==
  IF fn = "drawConnections"
    THEN drawConnections(container)
    ELSE drawRowSums(container, overlay)

\* one frame over the pending callbacks: the overlay and the callbacks left
runFrame(container, pending, overlay) ==
  forLoop(LAMBDA j, acc :
            IF pending[j].framesLeft > 1
              THEN [svg |-> acc.svg,
                    frames |-> Append(acc.frames,
                                      [pending[j] EXCEPT !.framesLeft = @ - 1])]
              ELSE [svg |-> runCallback(pending[j].fn, container, acc.svg),
                    frames |-> acc.frames],
          1, Len(pending), [svg |-> overlay, frames |-> <<>>])

AnimationFrame ==
  /\ frames # <<>>
  /\ \E after \in {runFrame(triangleContainer, frames, svg)} :
       /\ svg' = after.svg
       /\ frames' = after.frames
  /\ UNCHANGED <<state, rowsInput, triangleContainer, patternCells,
                 expansionContent, call, classList, lastClicked, timeout,
                 timers>>

(***************************************************************************)
(* debounce (src/app.js 1288-1296) and the two listeners it wraps          *)
(* (src/app.js 323-330)                                                    *)
(***************************************************************************)
\* clearTimeout with no effect
clearTimeoutNothing(pending, id) == pending

\* clearTimeout(id): the timer of that id, if it is still pending, is gone
clearTimeout(pending, id) == {timer \in pending : timer.id # id}

\* the id setTimeout returns: one that no timer and no closure holds
freshId ==
  CHOOSE id \in 1..(Cardinality(timers) + Cardinality(Listeners) + 1) :
    /\ \A timer \in timers : timer.id # id
    /\ \A listener \in Listeners : timeout[listener] # id
    /\ \A smaller \in 1..(id - 1) :
         \/ \E timer \in timers : timer.id = smaller
         \/ \E listener \in Listeners : timeout[listener] = smaller

\* the function debounce returns, called with args
debounced(listener, args) ==
  /\ timers' = (IF timeout[listener] # null
                  THEN clearTimeout(timers, timeout[listener])
                  ELSE timers)
               \cup {[id |-> freshId, listener |-> listener, args |-> args]}
  /\ timeout' = [timeout EXCEPT ![listener] = freshId]
  /\ UNCHANGED <<state, rowsInput, triangleContainer, svg, patternCells,
                 frames, expansionContent, call, classList, lastClicked>>

\* the events a listener can be called with
Events == {"event1", "event2"}

\* a resize of the window, a scroll of the triangle wrapper
Resize(args) == debounced("resize", args)

Scroll(args) == debounced("scroll", args)

\* a timer fires: fn.apply(this, args), where fn is
\* () => { if (state.showLines) drawConnections(); }
fires(timer) ==
  /\ timer \in timers
  /\ timers' = timers \ {timer}
  /\ svg' = IF state.showLines THEN drawConnections(triangleContainer) ELSE svg
  /\ UNCHANGED <<state, rowsInput, triangleContainer, patternCells, frames,
                 expansionContent, call, classList, lastClicked, timeout>>

(***************************************************************************)
(* init() (src/app.js 34-68): the field shows state.rows, then the first   *)
(* render; the page itself ships the expansion panel's first content       *)
(***************************************************************************)
NoCall == [fn |-> "none", done |-> TRUE]

Init ==
  \E doc \in {documentOf(initialState.rows, initialState.showSymmetryLine,
                          initialState.currentPattern)} :
    /\ state = initialState
    /\ rowsInput = numberToString(initialState.rows)
    /\ triangleContainer = doc.container
    /\ svg = doc.svg
    /\ patternCells = doc.cells
    /\ frames = <<>>
    /\ expansionContent = Text("page")
    /\ call = NoCall
    /\ classList = {}
    /\ lastClicked = <<>>
    /\ timeout = [listener \in Listeners |-> null]
    /\ timers = {}
    /\ history = <<>>

vars == <<state, rowsInput, triangleContainer, svg, patternCells, frames,
          expansionContent, call, classList, lastClicked, timeout, timers,
          history>>

Next ==
  \/ ClickApplyRows /\ UNCHANGED history
  \/ ClickAddRow /\ UNCHANGED history
  \/ ClickRemoveRow /\ UNCHANGED history
  \/ ClickReset /\ UNCHANGED history
  \/ ClickSymmetry /\ UNCHANGED history
  \/ ClickFibonacci /\ UNCHANGED history
  \/ ClickNatural /\ UNCHANGED history
  \/ ClickTriangular /\ UNCHANGED history
  \/ ClickTetrahedral /\ UNCHANGED history
  \/ ClickClearPattern /\ UNCHANGED history

Spec == Init /\ [][Next]_vars

(***************************************************************************)
(* The buttons of the page at its initial row count: every feature button, *)
(* the toggles, reset, clicks on cells, and the animation frames           *)
(***************************************************************************)
\* render requests at most two callbacks: room for them before the handler
FramesFit == Len(frames) + 2 <= MaxPending

\* the callbacks pending after a handler that renders, so that a click can
\* fall between a render and the frames of its callbacks
FramesWithin == Len(frames') <= MaxPending

ButtonsNext ==
  \/ ClickReset /\ FramesWithin /\ UNCHANGED history
  \/ ClickSymmetry /\ FramesWithin /\ UNCHANGED history
  \/ ClickSierpinski /\ FramesWithin /\ UNCHANGED history
  \/ ClickRowSums /\ FramesWithin /\ UNCHANGED history
  \/ ClickPrimes /\ FramesWithin /\ UNCHANGED history
  \/ ClickFibonacci /\ FramesWithin /\ UNCHANGED history
  \/ ClickNatural /\ FramesWithin /\ UNCHANGED history
  \/ ClickTriangular /\ FramesWithin /\ UNCHANGED history
  \/ ClickTetrahedral /\ FramesWithin /\ UNCHANGED history
  \/ ClickClearPattern /\ FramesWithin /\ UNCHANGED history
  \/ ClickToggleLines /\ FramesWithin /\ UNCHANGED history
  \/ ClickToggleNotation /\ FramesWithin /\ UNCHANGED history
  \/ ClickToggleCoeff /\ UNCHANGED history
  \/ ClickCell /\ UNCHANGED history
  \/ AnimationFrame /\ UNCHANGED history

ButtonsSpec == Init /\ [][ButtonsNext]_vars

(***************************************************************************)
(* The overlay of the page at its initial row count: the handlers that     *)
(* draw into it or empty it, with the animation frames and the timers of   *)
(* the debounced listeners                                                 *)
(***************************************************************************)
TimerFires == \E timer \in timers : fires(timer)

OverlayNext ==
  \/ FramesFit /\ ClickReset /\ UNCHANGED history
  \/ FramesFit /\ ClickSymmetry /\ UNCHANGED history
  \/ FramesFit /\ ClickSierpinski /\ UNCHANGED history
  \/ FramesFit /\ ClickRowSums /\ UNCHANGED history
  \/ FramesFit /\ ClickPrimes /\ UNCHANGED history
  \/ FramesFit /\ ClickFibonacci /\ UNCHANGED history
  \/ FramesFit /\ ClickNatural /\ UNCHANGED history
  \/ FramesFit /\ ClickTriangular /\ UNCHANGED history
  \/ FramesFit /\ ClickTetrahedral /\ UNCHANGED history
  \/ FramesFit /\ ClickClearPattern /\ UNCHANGED history
  \/ FramesFit /\ ClickToggleLines /\ UNCHANGED history
  \/ AnimationFrame /\ UNCHANGED history
  \/ (\E args \in Events : Resize(args)) /\ UNCHANGED history
  \/ (\E args \in Events : Scroll(args)) /\ UNCHANGED history
  \/ TimerFires /\ UNCHANGED history

OverlaySpec == Init /\ [][OverlayNext]_vars

(***************************************************************************)
(* The debounced listeners with their history: each call of a debounced    *)
(* function and each call of its fn is recorded, in order                  *)
(***************************************************************************)
Called(listener, args) ==
  [listener |-> listener, what |-> "called", args |-> args]

Ran(timer) ==
  [listener |-> timer.listener, what |-> "ran", args |-> timer.args]

DebounceNext ==
  \/ \E args \in Events :
       /\ Len(history) < MaxHistory
       /\ Resize(args)
       /\ history' = Append(history, Called("resize", args))
  \/ \E args \in Events :
       /\ Len(history) < MaxHistory
       /\ Scroll(args)
       /\ history' = Append(history, Called("scroll", args))
  \/ \E timer \in timers :
       /\ fires(timer)
       /\ history' = Append(history, Ran(timer))
  \/ FramesFit /\ ClickToggleLines /\ UNCHANGED history
  \/ AnimationFrame /\ UNCHANGED history

DebounceSpec == Init /\ [][DebounceNext]_vars

(***************************************************************************)
(* The pure functions called directly: a call is drawn from the whole      *)
(* domain of the function, then the function returns                       *)
(***************************************************************************)
\* the cells the extraction finds in the document: those render has just
\* built for state.rows (src/app.js 437-492, 510-511)
renderedContainer(rows) == documentOf(rows, FALSE, "null").container

Calls ==
  {[fn |-> "generatePascalTriangle", rows |-> R, done |-> FALSE] :
     R \in 0..maxRows}
  \cup {[fn |-> "combination", n |-> nk[1], k |-> nk[2], done |-> FALSE] :
     nk \in {p \in (0..maxRows) \X (0..maxRows) : p[2] <= p[1]}}
  \cup {[fn |-> "isPrime", num |-> v, done |-> FALSE] : v \in 0..MaxPrimeArg}
  \cup {[fn |-> "showBinomialExpansion", row |-> n, useNumericCoeff |-> b,
         done |-> FALSE] :
     n \in 0..(maxRows - 1), b \in BOOLEAN}
  \cup {[fn |-> f, rows |-> R, container |-> renderedContainer(R),
         done |-> FALSE] :
     f \in {"getNaturalNumberCells", "getTriangularNumberCells",
            "getTetrahedralNumberCells", "getFibonacciCells", "drawRowSums"},
     R \in minRows..maxRows}

ReturnGenerate ==
  /\ call.fn = "generatePascalTriangle" /\ ~call.done
  /\ call' = [fn |-> call.fn, rows |-> call.rows, done |-> TRUE,
              ret |-> generatePascalTriangle(call.rows)]

ReturnCombination ==
  /\ call.fn = "combination" /\ ~call.done
  /\ call' = [fn |-> call.fn, n |-> call.n, k |-> call.k, done |-> TRUE,
              ret |-> combination(call.n, call.k),
              steps |-> IF call.k = 0 \/ call.k = call.n
                          THEN <<>>
                          ELSE combinationTrace(call.n, call.k)]

ReturnIsPrime ==
  /\ call.fn = "isPrime" /\ ~call.done
  /\ call' = [fn |-> call.fn, num |-> call.num, done |-> TRUE,
              ret |-> isPrime(call.num)]

ReturnExpansion ==
  /\ call.fn = "showBinomialExpansion" /\ ~call.done
  /\ call' = [call EXCEPT !.done = TRUE] @@
             [ret |-> showBinomialExpansion(call.row, call.useNumericCoeff)]

ReturnNatural ==
  /\ call.fn = "getNaturalNumberCells" /\ ~call.done
  /\ call' = [call EXCEPT !.done = TRUE] @@
             [ret |-> getNaturalNumberCells(call.rows, call.container)]

ReturnTriangular ==
  /\ call.fn = "getTriangularNumberCells" /\ ~call.done
  /\ call' = [call EXCEPT !.done = TRUE] @@
             [ret |-> getTriangularNumberCells(call.rows, call.container)]

ReturnTetrahedral ==
  /\ call.fn = "getTetrahedralNumberCells" /\ ~call.done
  /\ call' = [call EXCEPT !.done = TRUE] @@
             [ret |-> getTetrahedralNumberCells(call.rows, call.container)]

\* drawRowSums on the overlay render has emptied
ReturnRowSums ==
  /\ call.fn = "drawRowSums" /\ ~call.done
  /\ call' = [call EXCEPT !.done = TRUE] @@
             [svg |-> drawRowSums(call.container, <<>>)]

\* render has emptied the overlay (clearSVG) before the extraction draws
ReturnFibonacci ==
  /\ call.fn = "getFibonacciCells" /\ ~call.done
  /\ LET r == getFibonacciCells(call.rows, call.container, <<>>)
     IN  call' = [call EXCEPT !.done = TRUE] @@
                 [ret |-> r.cells, svg |-> r.svg]

\* the document is as init() leaves it; only the call changes
FnInit ==
  /\ call \in Calls
  /\ state = initialState
  /\ rowsInput = numberToString(initialState.rows)
  /\ triangleContainer = renderedContainer(initialState.rows)
  /\ svg = <<>>
  /\ patternCells = <<>>
  /\ frames = <<>>
  /\ expansionContent = Text("page")
  /\ classList = {}
  /\ lastClicked = <<>>
  /\ timeout = [listener \in Listeners |-> null]
  /\ timers = {}
  /\ history = <<>>

uiVars == <<state, rowsInput, triangleContainer, svg, patternCells, frames,
            expansionContent, classList, lastClicked, timeout, timers,
            history>>

FnNext ==
  \/ ReturnGenerate /\ UNCHANGED uiVars
  \/ ReturnCombination /\ UNCHANGED uiVars
  \/ ReturnIsPrime /\ UNCHANGED uiVars
  \/ ReturnExpansion /\ UNCHANGED uiVars
  \/ ReturnNatural /\ UNCHANGED uiVars
  \/ ReturnTriangular /\ UNCHANGED uiVars
  \/ ReturnTetrahedral /\ UNCHANGED uiVars
  \/ ReturnFibonacci /\ UNCHANGED uiVars
  \/ ReturnRowSums /\ UNCHANGED uiVars

FnSpec == FnInit /\ [][FnNext]_vars

(***************************************************************************)
(* Claims about the pure functions (checked under FnSpec)                  *)
(***************************************************************************)
Returned(fn) == call.fn = fn /\ call.done

\* C1: for every row count R in 0..30, generatePascalTriangle(R) has exactly
\* R rows, and row n (0 <= n < R) has exactly n+1 entries; R = 0 gives the
\* empty table.
C1_TableShape ==
  Returned("generatePascalTriangle") =>
    /\ Len(call.ret) = call.rows
    /\ \A n \in 0..(call.rows - 1) : Len(call.ret[n + 1]) = n + 1
    /\ (call.rows = 0 => call.ret = <<>>)

C1_Witness ==
  /\ Returned("generatePascalTriangle")
  /\ call.rows = maxRows
  /\ Len(call.ret) = maxRows
  /\ Len(call.ret[maxRows]) = maxRows

\* C2: for every n in 0..29 and 0 <= k <= n, combination(n,0) =
\* combination(n,n) = 1, and for 0 < k < n combination(n,k) =
\* combination(n-1,k-1) + combination(n-1,k).
C2_AdditiveRule ==
  Returned("combination") =>
    IF call.k = 0 \/ call.k = call.n
      THEN call.ret = 1
      ELSE call.ret = combination(call.n - 1, call.k - 1)
                        + combination(call.n - 1, call.k)

C2_Witness ==
  /\ Returned("combination")
  /\ call.n = maxRows - 1 /\ call.k = 14
  /\ call.ret = 77558760

\* C3: for every n in 0..29 and 0 <= k <= n, combination(n,k) equals
\* combination(n,n-k), the call whose loop runs n-k iterations instead of k.
C3_Symmetry ==
  Returned("combination") => call.ret = combination(call.n, call.n - call.k)

C3_Witness ==
  /\ Returned("combination")
  /\ call.n = maxRows - 1 /\ call.k = 3
  /\ call.ret = 3654

\* C4: for every v in 0..1000, isPrime(v) is true exactly when v > 1 and no
\* integer d with 2 <= d and d*d <= v divides v.
C4_TrialDivision ==
  Returned("isPrime") =>
    (call.ret <=>
       /\ call.num > 1
       /\ ~\E d \in 2..call.num : d * d <= call.num /\ call.num % d = 0)

C4_Witness ==
  /\ Returned("isPrime")
  /\ call.num = 997
  /\ call.ret = TRUE

(***************************************************************************)
(* Claims about the running product of combination (checked under FnSpec)  *)
(***************************************************************************)
\* the row after `row` in Pascal's triangle, by addition
nextPascalRow(row) ==
  forLoop(LAMBDA j, next :
            Append(next, (IF j > 1 THEN row[j - 1] ELSE 0)
                           + (IF j <= Len(row) THEN row[j] ELSE 0)),
          1, Len(row) + 1, <<>>)

\* row n of Pascal's triangle, by addition from row 0
pascalRow(n) ==
  forLoop(LAMBDA m, row : nextPascalRow(row), 1, n, <<1>>)

\* a two-limb number is at most 2^53
AtMostTwoTo53(wide) ==
  wide.hi < 2^29 \/ (wide.hi = 2^29 /\ wide.lo = 0)

\* C13: in combination(n,k), for every n in 0..30 and 0 < k < n, at every
\* step i the product result*(n-i+1) is divisible by i and is at most 2^53,
\* and the value of result after step i is the integer C(n,i).
C13_RunningProduct ==
  (Returned("combination") /\ 0 < call.k /\ call.k < call.n) =>
    /\ Len(call.steps) = call.k
    /\ \A i \in 1..call.k :
         /\ call.steps[i].i = i
         /\ remainder(call.steps[i].product, i) = 0
         /\ AtMostTwoTo53(call.steps[i].product)
         /\ quotient(call.steps[i].product, call.n - i + 1)
              = (IF i = 1 THEN 1 ELSE call.steps[i - 1].result)
         /\ call.steps[i].result # NonInteger
         /\ call.steps[i].result = pascalRow(call.n)[i + 1]
    /\ call.ret = call.steps[call.k].result

\* combination(30, 15) = 155117520, whose last product 16 * 145422675 is
\* 138 * 2^24 + 11506992, above 2^31
C13_Witness ==
  /\ Returned("combination")
  /\ call.n = maxRows /\ call.k = 15
  /\ call.steps[15].product = [hi |-> 138, lo |-> 11506992]
  /\ call.ret = 155117520

(***************************************************************************)
(* Claims about showBinomialExpansion (checked under FnSpec).  The terms   *)
(* are read back from the LaTeX source the function returns.               *)
(***************************************************************************)
RECURSIVE skipDigits(_, _)
skipDigits(text, i) ==
  IF i <= Len(text) /\ IsDigit(text[i]) THEN skipDigits(text, i + 1) ELSE i

\* the source after the head "(a+b)^{row} = "
expansionBody(text) ==
  SubSeq(text, skipDigits(text, 8) + 4, Len(text))

\* where the " + " between two terms start
separators(text) ==
  {p \in 1..(Len(text) - 2) :
     text[p] = " " /\ text[p + 1] = "+" /\ text[p + 2] = " "}

\* the terms of a source, in order
termsOf(text) ==
  LET body == expansionBody(text)
      seps == separators(body)
      nth(j) == CHOOSE p \in seps : Cardinality({q \in seps : q < p}) = j - 1
  IN  [j \in 1..(Cardinality(seps) + 1) |->
         SubSeq(body,
                IF j = 1 THEN 1 ELSE nth(j - 1) + 3,
                IF j = Cardinality(seps) + 1 THEN Len(body) ELSE nth(j) - 1)]

\* a power of `letter` at position i of a term: its exponent (0 when the
\* letter is absent, 1 when it has no exponent) and the position after it
readPower(term, i, letter) ==
  IF i <= Len(term) /\ term[i] = letter
    THEN IF i + 1 <= Len(term) /\ term[i + 1] = "^"
           THEN [exponent |-> parseDigits(term, i + 3, 0),
                 next |-> skipDigits(term, i + 3) + 1]
           ELSE [exponent |-> 1, next |-> i + 1]
    ELSE [exponent |-> 0, next |-> i]

\* the coefficient at the head of a term: the number denoted by the symbol
\* C_{n}^{k}, the number written, or 1 when none is written
readCoefficient(term) ==
  IF Len(term) >= 1 /\ term[1] = "C"
    THEN [value |-> combination(parseDigits(term, 4, 0),
                                parseDigits(term, skipDigits(term, 4) + 3, 0)),
          next |-> skipDigits(term, skipDigits(term, 4) + 3) + 1]
    ELSE IF Len(term) >= 1 /\ IsDigit(term[1])
      THEN [value |-> parseDigits(term, 1, 0), next |-> skipDigits(term, 1)]
      ELSE [value |-> 1, next |-> 1]

\* the triple (coefficient, a-exponent, b-exponent) a term denotes, and
\* whether the whole term was read
readTerm(term) ==
  LET c == readCoefficient(term)
      a == readPower(term, c.next, "a")
      b == readPower(term, a.next, "b")
  IN  [coefficient |-> c.value, aExponent |-> a.exponent,
       bExponent |-> b.exponent, whole |-> b.next = Len(term) + 1]

Triple(c, a, b) ==
  [coefficient |-> c, aExponent |-> a, bExponent |-> b, whole |-> TRUE]

\* C11: for every n in 0..29 the expansion has exactly n+1 terms, in the
\* order k = 0..n, term k with coefficient combination(n,k), a-exponent n-k
\* and b-exponent k; for n = 3 the triples are (1,3,0), (3,2,1), (3,1,2),
\* (1,0,3).
C11_ExpansionTerms ==
  Returned("showBinomialExpansion") =>
    /\ SubSeq(call.ret, 1, Len(expansionHead(call.row)))
         = expansionHead(call.row)
    /\ Len(termsOf(call.ret)) = call.row + 1
    /\ \A k \in 0..call.row :
         readTerm(termsOf(call.ret)[k + 1])
           = Triple(combination(call.row, k), call.row - k, k)
    /\ (call.row = 3 =>
          [j \in 1..4 |-> readTerm(termsOf(call.ret)[j])]
            = <<Triple(1, 3, 0), Triple(3, 2, 1), Triple(3, 1, 2),
                Triple(1, 0, 3)>>)

\* (a+b)^{3} = a^{3} + 3a^{2}b + 3ab^{2} + b^{3}
C11_Witness ==
  /\ Returned("showBinomialExpansion")
  /\ call.row = 3 /\ call.useNumericCoeff
  /\ call.ret = <<"(", "a", "+", "b", ")", "^", "{", "3", "}", " ", "=", " ",
                  "a", "^", "{", "3", "}", " ", "+", " ",
                  "3", "a", "^", "{", "2", "}", "b", " ", "+", " ",
                  "3", "a", "b", "^", "{", "2", "}", " ", "+", " ",
                  "b", "^", "{", "3", "}">>

(***************************************************************************)
(* Claims about drawRowSums (checked under FnSpec)                         *)
(***************************************************************************)
\* the texts of the row-sum labels of an overlay, in the order drawn
rowSumLabels(overlay) ==
  SelectSeq(overlay, LAMBDA e : e.kind = "row-label-text")

\* the label reads "2^e = v": its exponent e, its right-hand side v, and
\* whether it has that form
readSumLabel(text) ==
  [exponent |-> parseDigits(text, 3, 0),
   value |-> parseInt(SubSeq(text, skipDigits(text, 3) + 3, Len(text))),
   formed |-> /\ SubSeq(text, 1, 2) = <<"2", "^">>
              /\ skipDigits(text, 3) > 3
              /\ SubSeq(text, skipDigits(text, 3), skipDigits(text, 3) + 2)
                   = <<" ", "=", " ">>]

RECURSIVE sumOf(_)
sumOf(row) == IF row = <<>> THEN 0 ELSE Head(row) + sumOf(Tail(row))

\* C12: for every row count R in 1..30 and every row n in 0..R-1, the
\* entries of row n of the generated table sum to 2^n, and the label
\* drawRowSums draws for the row reads "2^n = " followed by that sum, a true
\* equation.
C12_RowSumsArePowers ==
  Returned("drawRowSums") =>
    /\ Len(rowSumLabels(call.svg)) = call.rows
    /\ \A n \in 0..(call.rows - 1) :
         /\ sumOf(generatePascalTriangle(call.rows)[n + 1]) = 2^n
         /\ rowSumLabels(call.svg)[n + 1].at = <<n>>
         /\ readSumLabel(rowSumLabels(call.svg)[n + 1].text).formed
         /\ readSumLabel(rowSumLabels(call.svg)[n + 1].text).exponent = n
         /\ readSumLabel(rowSumLabels(call.svg)[n + 1].text).value = Num(2^n)

\* 30 rows: the last label reads 2^29 = 536870912
C12_Witness ==
  /\ Returned("drawRowSums")
  /\ call.rows = maxRows
  /\ rowSumLabels(call.svg)[maxRows].text
       = <<"2", "^", "2", "9", " ", "=", " ",
           "5", "3", "6", "8", "7", "0", "9", "1", "2">>

(***************************************************************************)
(* Claims about debounce (checked under DebounceSpec)                      *)
(***************************************************************************)
\* the history of one debounced listener
historyOf(listener) ==
  SelectSeq(history, LAMBDA entry : entry.listener = listener)

pendingOf(listener) == {timer \in timers : timer.listener = listener}

\* C14: at most one timer of a debounced function is pending; fn runs only
\* directly after the last call of a burst and with that call's arguments,
\* so once per burst; while a burst is open its one timer holds the last
\* call's arguments, and once fn has run no timer is pending until a call
\* opens a new burst.
C14_OneExecutionPerBurst ==
  \A listener \in Listeners :
    /\ Cardinality(pendingOf(listener)) <= 1
    /\ \A i \in 1..Len(historyOf(listener)) :
         historyOf(listener)[i].what = "ran" =>
           /\ i > 1
           /\ historyOf(listener)[i - 1].what = "called"
           /\ historyOf(listener)[i - 1].args = historyOf(listener)[i].args
    /\ IF historyOf(listener) # <<>>
            /\ historyOf(listener)[Len(historyOf(listener))].what = "called"
         THEN \E timer \in timers :
                /\ pendingOf(listener) = {timer}
                /\ timer.id = timeout[listener]
                /\ timer.args = historyOf(listener)[Len(historyOf(listener))].args
         ELSE pendingOf(listener) = {}

\* a burst of two resizes has run fn once, with the second event, and a
\* third resize has opened a new burst, whose timer is pending
C14_Witness ==
  /\ historyOf("resize") = <<Called("resize", "event1"),
                             Called("resize", "event2"),
                             [listener |-> "resize", what |-> "ran",
                              args |-> "event2"],
                             Called("resize", "event1")>>
  /\ Cardinality(pendingOf("resize")) = 1

(***************************************************************************)
(* Claims about the click handlers (checked under Spec)                    *)
(***************************************************************************)
\* C5: after any sequence of apply-rows (whatever the field holds: no
\* number, 0, a negative number, 31 or more), add-row, remove-row and reset,
\* state.rows is an integer in 1..30, and the triangle render has built, from
\* generatePascalTriangle(state.rows), has that many rows.
C5_RowsInRange ==
  /\ state.rows \in minRows..maxRows
  /\ Len(triangleContainer) = state.rows

\* 31 was typed and applied on a triangle of 30 rows, and refused
C5_Witness ==
  /\ rowsInput = numberToString(maxRows + 1)
  /\ state.rows = maxRows
  /\ Len(triangleContainer) = maxRows

(***************************************************************************)
(* Claims about the buttons (checked under ButtonsSpec)                    *)
(***************************************************************************)
\* the special features that are active in the state object
activeFeatures ==
  {feature \in {"symmetry", "sierpinski", "rowSums", "primes", "pattern"} :
     CASE feature = "symmetry" -> state.showSymmetryLine
       [] feature = "sierpinski" -> state.showSierpinski
       [] feature = "rowSums" -> state.showRowSums
       [] feature = "primes" -> state.showPrimes
       [] OTHER -> state.currentPattern # "null"}

\* C15: after any sequence of clicks on the buttons, at most one of
\* showSymmetryLine, showSierpinski, showRowSums, showPrimes and
\* currentPattern # null is true.
C15_AtMostOneFeature == Cardinality(activeFeatures) <= 1

\* the Fibonacci pattern is the one active feature after the Sierpinski
\* feature was active, with the three toggles on
C15_Witness ==
  /\ activeFeatures = {"pattern"}
  /\ state.currentPattern = "fibonacci"
  /\ "sierpinski-active" \in classList
  /\ state.showLines /\ state.useCombination /\ state.useNumericCoeff

\* C16: from every reachable state, after a click on reset every field of
\* the state object equals its value in the initial state.
C16_ResetRestoresInitialState ==
  [][ClickReset => state' = initialState]_vars

\* C18: after any sequence of button clicks, the triangle container carries
\* the class 'sierpinski-active' if and only if state.showSierpinski is true.
C18_ClassIffSierpinski ==
  ("sierpinski-active" \in classList) <=> state.showSierpinski

\* C19: the placeholder that reset puts in the expansion panel stays there
\* under every operation that is not a click on a cell of the rendered
\* triangle: only a cell click replaces it by a formula.
C19_PlaceholderUntilCellClick ==
  [][(expansionContent = Text("placeholder") /\ ~ClickCell)
       => expansionContent' = Text("placeholder")]_vars

\* the elements of the overlay of the given kinds
overlayOf(kinds) == {e \in 1..Len(svg) : svg[e].kind \in kinds}

\* C21: callbacks of a superseded render do not draw: under every
\* interleaving of clicks and animation frames, once no callback is pending
\* the overlay holds connection lines only if state.showLines is true,
\* row-sum annotations only if state.showRowSums is true, and at most one
\* row-sum label for each row.
C21_NoStaleDrawing ==
  frames = <<>> =>
    /\ overlayOf({"connection"}) # {} => state.showLines
    /\ overlayOf({"row-line", "row-connect", "row-label-rect",
                  "row-label-text"}) # {} => state.showRowSums
    /\ \A n \in 0..(state.rows - 1) :
         Cardinality({e \in overlayOf({"row-label-text"}) :
                        svg[e].at = <<n>>}) <= 1

(***************************************************************************)
(* Claims about the overlay (checked under OverlaySpec)                    *)
(***************************************************************************)
\* every element of the annotations is in the overlay
Drawn(annotations) ==
  \A j \in 1..Len(annotations) :
    \E e \in 1..Len(svg) : svg[e] = annotations[j]

\* C20: whenever the Fibonacci pattern or the symmetry line is the active
\* feature and no animation-frame callback and no timer of a debounced
\* listener is pending, the overlay contains what that feature draws: the
\* diagonal lines and the sum labels, or the symmetry line.
C20_AnnotationsSurviveCallbacks ==
  (frames = <<>> /\ timers = {}) =>
    /\ state.currentPattern = "fibonacci" =>
         Drawn(getFibonacciCells(state.rows, triangleContainer, <<>>).svg)
    /\ state.showSymmetryLine =>
         Drawn(drawVerticalSymmetryLine(state.rows, triangleContainer))

(***************************************************************************)
(* Claims about the pattern extraction (checked under FnSpec)              *)
(***************************************************************************)
\* the number a cell holds, read as the script reads it
cellNumber(cell) == parseInt(cell.value)

C7_TriangularCells ==
  (Returned("getTriangularNumberCells") /\ call.rows >= 3) =>
    /\ Len(call.ret) = call.rows - 2
    /\ \A j \in 1..(call.rows - 2) :
         /\ call.ret[j].n = j + 1
         /\ call.ret[j].k = 2
         /\ cellNumber(call.ret[j]) = Num((j * (j + 1)) \div 2)

C7_Witness ==
  /\ Returned("getTriangularNumberCells")
  /\ call.rows = maxRows
  /\ Len(call.ret) = maxRows - 2
  /\ call.ret[4].value = <<"1", "0">>

\* C8: for every row count R in 4..30, the tetrahedral extraction returns the
\* cells at column 3 of rows 3..R-1 in increasing row order, and its j-th
\* value (j = 1..R-3) is j(j+1)(j+2)/6: 1, 4, 10, 20, ...
C8_TetrahedralCells ==
  (Returned("getTetrahedralNumberCells") /\ call.rows >= 4) =>
    /\ Len(call.ret) = call.rows - 3
    /\ \A j \in 1..(call.rows - 3) :
         /\ call.ret[j].n = j + 2
         /\ call.ret[j].k = 3
         /\ cellNumber(call.ret[j]) = Num((j * (j + 1) * (j + 2)) \div 6)

C8_Witness ==
  /\ Returned("getTetrahedralNumberCells")
  /\ call.rows = maxRows
  /\ Len(call.ret) = maxRows - 3
  /\ call.ret[4].value = <<"2", "0">>

\* C9 as stated: in the triangular family the cell at column 2 of row n
\* holds the n-th triangular number n(n+1)/2.
C9_RowIndexedTriangular ==
  Returned("getTriangularNumberCells") =>
    \A j \in 1..Len(call.ret) :
      LET n == call.ret[j].n
      IN  cellNumber(call.ret[j]) = Num((n * (n + 1)) \div 2)

\* C9 as amended: in the triangular family the cell at column 2 of row n,
\* for every n in 2..R-1, holds the (n-1)-th triangular number (n-1)n/2.
C9_PreviousTriangular ==
  Returned("getTriangularNumberCells") =>
    /\ {call.ret[j].n : j \in 1..Len(call.ret)} = 2..(call.rows - 1)
    /\ \A j \in 1..Len(call.ret) :
         LET n == call.ret[j].n
         IN  /\ call.ret[j].k = 2
             /\ cellNumber(call.ret[j]) = Num(((n - 1) * n) \div 2)

C9_Witness ==
  /\ Returned("getTriangularNumberCells")
  /\ call.rows = maxRows
  /\ call.ret[maxRows - 2].n = maxRows - 1
  /\ call.ret[maxRows - 2].value = <<"4", "0", "6">>

\* the classical Fibonacci numbers, F(1) = F(2) = 1
RECURSIVE fibonacciFrom(_, _, _)
fibonacciFrom(j, a, b) == IF j = 1 THEN a ELSE fibonacciFrom(j - 1, b, a + b)

Fibonacci(j) == fibonacciFrom(j, 1, 1)

\* the labels of the diagonal sums, in the order they were drawn
sumLabels(overlay) == SelectSeq(overlay, LAMBDA e : e.kind = "label-text")

\* C10 as stated: the diagonal sums are not the Fibonacci sequence: some
\* diagonal m < R has a sum other than F(m+1).  A diagonal's sum does not
\* depend on R, so the full table R = 30 has such a diagonal if any R has.
C10_SomeSumNotFibonacci ==
  (Returned("getFibonacciCells") /\ call.rows = maxRows) =>
    \E m \in 0..(call.rows - 1) :
      parseInt(sumLabels(call.svg)[m + 1].text) # Num(Fibonacci(m + 1))

\* C10 as amended: for every row count R in 1..30 and every diagonal m < R,
\* the sum of the cells (m-i, i) is the Fibonacci number F(m+1).
C10_SumsAreFibonacci ==
  Returned("getFibonacciCells") =>
    /\ Len(sumLabels(call.svg)) = call.rows
    /\ \A m \in 0..(call.rows - 1) :
         /\ sumLabels(call.svg)[m + 1].at = <<m>>
         /\ parseInt(sumLabels(call.svg)[m + 1].text) = Num(Fibonacci(m + 1))

C10_Witness ==
  /\ Returned("getFibonacciCells")
  /\ call.rows = maxRows
  /\ sumLabels(call.svg)[maxRows].text = <<"8", "3", "2", "0", "4", "0">>

\* the sum of the table cells (m - i, i) that exist, those with i <= m - i
RECURSIVE diagonalSumFrom(_, _)
diagonalSumFrom(m, i) ==
  IF i > m - i THEN 0 ELSE combination(m - i, i) + diagonalSumFrom(m, i + 1)

\* the sum the label of diagonal m shows
shownSum(overlay, m) == parseInt(sumLabels(overlay)[m + 1].text).val

\* C17: for every row count R in 1..30, getFibonacciCells shows exactly one
\* sum per diagonal m = 0..R-1, in order of m, each the sum of the existing
\* cells (m-i, i), and the sums satisfy S(0) = 1, S(1) = 1 and
\* S(m) = S(m-1) + S(m-2) for 2 <= m <= R-1.
C17_DiagonalSumsRecurrence ==
  Returned("getFibonacciCells") =>
    /\ Len(sumLabels(call.svg)) = call.rows
    /\ \A m \in 0..(call.rows - 1) :
         /\ sumLabels(call.svg)[m + 1].at = <<m>>
         /\ ~parseInt(sumLabels(call.svg)[m + 1].text).nan
         /\ shownSum(call.svg, m) = diagonalSumFrom(m, 0)
         /\ m < 2 => shownSum(call.svg, m) = 1
         /\ m >= 2 => shownSum(call.svg, m)
                        = shownSum(call.svg, m - 1) + shownSum(call.svg, m - 2)

\* seven rows show the sums 1, 1, 2, 3, 5, 8, 13
C17_Witness ==
  /\ Returned("getFibonacciCells")
  /\ call.rows = 7
  /\ [m \in 1..7 |-> sumLabels(call.svg)[m].text]
       = << <<"1">>, <<"1">>, <<"2">>, <<"3">>, <<"5">>, <<"8">>,
            <<"1", "3">> >>

====
